---- MODULE Spec2Model ----
(***************************************************************************)
(* Model of the cheapRuler package (benjamintd/cheap-ruler-go): a Ruler is *)
(* a pair of scale factors kx, ky, and every operation is a pure function  *)
(* of the ruler and its geometry arguments.  The state machine records the *)
(* last call: which operation ran, on which ruler and arguments, and what  *)
(* it returned.                                                            *)
(*                                                                         *)
(* float64 is modelled by exact extended rationals <<n, d>>: d > 0 is the  *)
(* finite value n/d in lowest terms, <<1, 0>> and <<-1, 0>> are +Inf and   *)
(* -Inf, <<0, 0>> is NaN.  Rounding error and signed zeros are not         *)
(* modelled.  math.Sqrt of a rational whose root is irrational is kept as  *)
(* the exact surd <<n, d, 2>>; lines whose length is summed are drawn from *)
(* those whose segment lengths are rational, so surds are never added.     *)
(***************************************************************************)
EXTENDS Integers, Sequences, FiniteSets, TLC

(* ------------------------------ bounds -------------------------------- *)
\* the input points are the first MaxPoint + 1 points of a grid two rows high
MaxPoint == 5
\* input lines have at most MaxLen points
MaxLen == 3

(* ------------------------- float64 arithmetic ------------------------- *)
AbsI(n) == IF n < 0 THEN -n ELSE n

SgnI(n) == IF n < 0 THEN -1 ELSE IF n > 0 THEN 1 ELSE 0

RECURSIVE GCD(_, _)
GCD(a, b) == IF b = 0 THEN a ELSE GCD(b, a % b)

\* the float64 with value n/d, d # 0
Q(n, d) ==
  LET s == IF d < 0 THEN -1 ELSE 1
      g == GCD(AbsI(n), AbsI(d))
  IN  <<(s * n) \div g, (s * d) \div g>>

I(n) == <<n, 1>>
NaN == <<0, 0>>
PosInf == <<1, 0>>
Zero == <<0, 1>>
One == <<1, 1>>

IsNaN(a) == a[2] = 0 /\ a[1] = 0

RNeg(a) == <<-a[1], a[2]>>

RAdd(a, b) ==
  IF IsNaN(a) \/ IsNaN(b) THEN NaN
  ELSE IF a[2] = 0 THEN (IF b[2] = 0 /\ b[1] # a[1] THEN NaN ELSE a)
  ELSE IF b[2] = 0 THEN b
  ELSE LET g == GCD(a[2], b[2])
       IN  Q(a[1] * (b[2] \div g) + b[1] * (a[2] \div g), (a[2] \div g) * b[2])

RSub(a, b) == RAdd(a, RNeg(b))

RMul(a, b) ==
  IF IsNaN(a) \/ IsNaN(b) THEN NaN
  ELSE IF a[2] = 0 \/ b[2] = 0
       THEN <<SgnI(a[1]) * SgnI(b[1]), 0>>
  ELSE LET g1 == GCD(AbsI(a[1]), b[2])
           g2 == GCD(AbsI(b[1]), a[2])
       IN  IF a[1] = 0 \/ b[1] = 0 THEN Zero
           ELSE <<(a[1] \div g1) * (b[1] \div g2), (a[2] \div g2) * (b[2] \div g1)>>

\* 1/a; 1/0 is +Inf, 1/Inf is 0
RInv(a) ==
  IF IsNaN(a) THEN NaN
  ELSE IF a[2] = 0 THEN Zero
  ELSE IF a[1] = 0 THEN PosInf
  ELSE IF a[1] < 0 THEN <<-a[2], -a[1]>> ELSE <<a[2], a[1]>>

\* a / b: x/0 is +-Inf, 0/0 and Inf/Inf are NaN
RDiv(a, b) == RMul(a, RInv(b))

\* the float64 comparisons; every comparison with NaN is false except #
RLt(a, b) ==
  IF IsNaN(a) \/ IsNaN(b) THEN FALSE
  ELSE IF a[2] = 0 \/ b[2] = 0
       THEN (IF a[2] = 0 /\ b[2] = 0 THEN a[1] < b[1]
             ELSE a[1] * b[2] < b[1] * a[2])
  ELSE LET g == GCD(a[2], b[2])
       IN  a[1] * (b[2] \div g) < b[1] * (a[2] \div g)

REq(a, b) == ~IsNaN(a) /\ ~IsNaN(b) /\ a = b
RGt(a, b) == RLt(b, a)
RLe(a, b) == RLt(a, b) \/ REq(a, b)
RGe(a, b) == RLe(b, a)

\* math.Max and math.Min: NaN if either argument is NaN
RMax(a, b) == IF IsNaN(a) \/ IsNaN(b) THEN NaN ELSE IF RLt(a, b) THEN b ELSE a
RMin(a, b) == IF IsNaN(a) \/ IsNaN(b) THEN NaN ELSE IF RLt(b, a) THEN b ELSE a

\* math.Abs
RAbs(a) == <<AbsI(a[1]), a[2]>>

RECURSIVE ISqrtIn(_, _, _)
\* the largest k in lo..hi with k*k <= n
ISqrtIn(n, lo, hi) ==
  IF lo >= hi THEN lo
  ELSE LET mid == (lo + hi + 1) \div 2
       IN  IF mid * mid <= n THEN ISqrtIn(n, mid, hi) ELSE ISqrtIn(n, lo, mid - 1)

ISqrt(n) == ISqrtIn(n, 0, IF n < 46340 THEN n ELSE 46340)

\* the square root of n/d given the integer square roots rn of n and rd of d
SqrtWith(n, d, rn, rd) ==
  IF rn * rn = n /\ rd * rd = d THEN <<rn, rd>> ELSE <<n, d, 2>>

\* math.Sqrt: exact when the root is rational, else the surd <<n, d, 2>>
Sqrt(a) ==
  IF IsNaN(a) \/ a[1] < 0 THEN NaN
  ELSE IF a[2] = 0 THEN PosInf
  ELSE SqrtWith(a[1], a[2], ISqrt(a[1]), ISqrt(a[2]))

\* arctan(n/m) in thousandths of a degree for coprime 0 < n < m <= 12
AtanTable ==
    {
      <<1, 2, 26565>>, <<1, 3, 18435>>, <<2, 3, 33690>>, <<1, 4, 14036>>,
      <<3, 4, 36870>>, <<1, 5, 11310>>, <<2, 5, 21801>>, <<3, 5, 30964>>,
      <<4, 5, 38660>>, <<1, 6, 9462>>, <<5, 6, 39806>>, <<1, 7, 8130>>,
      <<2, 7, 15945>>, <<3, 7, 23199>>, <<4, 7, 29745>>, <<5, 7, 35538>>,
      <<6, 7, 40601>>, <<1, 8, 7125>>, <<3, 8, 20556>>, <<5, 8, 32005>>,
      <<7, 8, 41186>>, <<1, 9, 6340>>, <<2, 9, 12529>>, <<4, 9, 23962>>,
      <<5, 9, 29055>>, <<7, 9, 37875>>, <<8, 9, 41634>>, <<1, 10, 5711>>,
      <<3, 10, 16699>>, <<7, 10, 34992>>, <<9, 10, 41987>>, <<1, 11, 5194>>,
      <<2, 11, 10305>>, <<3, 11, 15255>>, <<4, 11, 19983>>, <<5, 11, 24444>>,
      <<6, 11, 28610>>, <<7, 11, 32471>>, <<8, 11, 36027>>, <<9, 11, 39289>>,
      <<10, 11, 42274>>, <<1, 12, 4764>>, <<5, 12, 22620>>, <<7, 12, 30256>>,
      <<11, 12, 42510>>
    }

AtanMilli(n, m) == (CHOOSE e \in AtanTable : e[1] = n /\ e[2] = m)[3]

\* math.Atan2(y, x) * 180 / math.Pi for finite y, x, in degrees
Atan2Deg(y, x) ==
  LET ay == RAbs(y)
      ax == RAbs(x)
      q == IF ax[1] = 0 THEN Zero ELSE RDiv(ay, ax)
      \* the angle between the vector and the positive x axis side, 0..90
      acute == IF ay[1] = 0 THEN Zero
               ELSE IF ax[1] = 0 THEN I(90)
               ELSE IF q[1] = q[2] THEN I(45)
               ELSE IF q[1] < q[2] THEN Q(AtanMilli(q[1], q[2]), 1000)
               ELSE RSub(I(90), Q(AtanMilli(q[2], q[1]), 1000))
      mag == IF x[1] < 0 THEN RSub(I(180), acute) ELSE acute
  IN  IF y[1] < 0 THEN RNeg(mag) ELSE mag

(* ------------------------------ NewRuler ------------------------------ *)
\* the float64 written as the decimal n * 10^-5
Dec5(n) == Q(n, 100000)

UnitNames ==
  {"kilometers", "miles", "nauticalmiles", "meters", "metres", "yards", "feet", "inches"}

Units ==
  [u \in UnitNames |->
     CASE u = "kilometers" -> I(1)
       [] u = "miles" -> RDiv(I(1000), Q(1609344, 1000))
       [] u = "nauticalmiles" -> RDiv(I(1000), I(1852))
       [] u = "meters" -> I(1000)
       [] u = "metres" -> I(1000)
       [] u = "yards" -> RDiv(I(1000), Q(9144, 10000))
       [] u = "feet" -> RDiv(I(1000), Q(3048, 10000))
       [] u = "inches" -> RDiv(I(1000), Q(254, 10000))]

\* the latitudes, in degrees, whose cosine is rational
Latitudes == {0, 60, -60}

\* math.Cos(lat * math.Pi / 180)
CosDeg(lat) == IF lat = 0 THEN I(1) ELSE Q(1, 2)

NilError == <<>>

\* NewRuler falling back to the scale of "meters"
NewRulerFallbackMeters(lat, unit) ==
  LET ok == unit \in DOMAIN Units
      m == IF ok THEN Units[unit] ELSE I(1000)
      e == IF ok THEN NilError ELSE <<unit, " is not a valid unit">>
      cos == CosDeg(lat)
      cos2 == RSub(RMul(RMul(I(2), cos), cos), I(1))
      cos3 == RSub(RMul(RMul(I(2), cos), cos2), cos)
      cos4 == RSub(RMul(RMul(I(2), cos), cos3), cos2)
      cos5 == RSub(RMul(RMul(I(2), cos), cos4), cos3)
      kx == RMul(m, RAdd(RSub(RMul(Dec5(11141513), cos), RMul(Dec5(9455), cos3)),
                         RMul(Dec5(12), cos5)))
      ky == RMul(m, RAdd(RSub(Dec5(11113209), RMul(Dec5(56605), cos2)),
                         RMul(Dec5(120), cos4)))
  IN  [ruler |-> [kx |-> kx, ky |-> ky], err |-> e]

NewRuler(lat, unit) ==
  LET ok == unit \in DOMAIN Units
      m == IF ok THEN Units[unit] ELSE I(1)
      e == IF ok THEN NilError ELSE <<unit, " is not a valid unit">>
      cos == CosDeg(lat)
      cos2 == RSub(RMul(RMul(I(2), cos), cos), I(1))
      cos3 == RSub(RMul(RMul(I(2), cos), cos2), cos)
      cos4 == RSub(RMul(RMul(I(2), cos), cos3), cos2)
      cos5 == RSub(RMul(RMul(I(2), cos), cos4), cos3)
      kx == RMul(m, RAdd(RSub(RMul(Dec5(11141513), cos), RMul(Dec5(9455), cos3)),
                         RMul(Dec5(12), cos5)))
      ky == RMul(m, RAdd(RSub(Dec5(11113209), RMul(Dec5(56605), cos2)),
                         RMul(Dec5(120), cos4)))
  IN  [ruler |-> [kx |-> kx, ky |-> ky], err |-> e]

(* --------------------------- point operations ------------------------- *)
\* l[i] for a Go (zero-based) index
At(l, i) == l[i + 1]

\* == on Point ([2]float64): both coordinates compare equal
PointEq(a, b) == REq(a[1], b[1]) /\ REq(a[2], b[2])

\* Distance scaling only the coordinates of a
DistanceScalingFirst(r, a, b) ==
  LET dx == RSub(RMul(a[1], r.kx), b[1])
      dy == RSub(RMul(a[2], r.ky), b[2])
  IN  Sqrt(RAdd(RMul(dx, dx), RMul(dy, dy)))

Distance(r, a, b) ==
  LET dx == RMul(RSub(a[1], b[1]), r.kx)
      dy == RMul(RSub(a[2], b[2]), r.ky)
  IN  Sqrt(RAdd(RMul(dx, dx), RMul(dy, dy)))

\* Bearing measuring the vector from b to a
BearingReversed(r, a, b) ==
  LET dx == RMul(RSub(a[1], b[1]), r.kx)
      dy == RMul(RSub(a[2], b[2]), r.ky)
      bearing == Atan2Deg(dx, dy)
  IN  IF REq(dx, Zero) /\ REq(dy, Zero) THEN Zero
      ELSE IF RGt(bearing, I(180)) THEN RSub(bearing, I(360))
      ELSE bearing

Bearing(r, a, b) ==
  LET dx == RMul(RSub(b[1], a[1]), r.kx)
      dy == RMul(RSub(b[2], a[2]), r.ky)
      bearing == Atan2Deg(dx, dy)
  IN  IF REq(dx, Zero) /\ REq(dy, Zero) THEN Zero
      ELSE IF RGt(bearing, I(180)) THEN RSub(bearing, I(360))
      ELSE bearing

\* Offset dividing both components by kx
OffsetOneScale(r, p, dx, dy) ==
  <<RAdd(p[1], RDiv(dx, r.kx)), RAdd(p[2], RDiv(dy, r.kx))>>

Offset(r, p, dx, dy) ==
  <<RAdd(p[1], RDiv(dx, r.kx)), RAdd(p[2], RDiv(dy, r.ky))>>

interpolate(a, b, t) ==
  LET dx == RSub(b[1], a[1])
      dy == RSub(b[2], a[2])
  IN  <<RAdd(a[1], RMul(dx, t)), RAdd(a[2], RMul(dy, t))>>

(* --------------------------- line operations -------------------------- *)
RECURSIVE LineDistanceFrom(_, _, _, _)
\* the loop of LineDistance from index i with the running total distance
LineDistanceFrom(r, l, i, distance) ==
  IF i < Len(l) - 1
  THEN LineDistanceFrom(r, l, i + 1, RAdd(distance, Distance(r, At(l, i), At(l, i + 1))))
  ELSE distance

LineDistance(r, l) == LineDistanceFrom(r, l, 0, Zero)

\* a call that returns v, and a call that panics with an index out of range
Returns(v) == [ok |-> TRUE, v |-> v]
Panics == [ok |-> FALSE, v |-> <<>>]

\* the body of the loop of Along interpolating by dist/d, the running sum
\* before the segment not taken off
AlongStepWholeDist(p0, p1, dist, d, s, rest) ==
  IF RGt(s, dist)
  THEN Returns(interpolate(p0, p1, RDiv(dist, d)))
  ELSE rest

\* the body of the loop of Along on segment i, whose length is d, with the
\* running sum s already advanced by d; rest is the remainder of the loop
AlongStep(p0, p1, dist, d, s, rest) ==
  IF RGt(s, dist)
  THEN Returns(interpolate(p0, p1, RDiv(RSub(dist, RSub(s, d)), d)))
  ELSE rest

RECURSIVE AlongFrom(_, _, _, _, _)
RECURSIVE AlongSegment(_, _, _, _, _, _)
\* the loop of Along from index i with the running sum
AlongFrom(r, l, dist, i, sum) ==
  IF i < Len(l) - 1
  THEN AlongSegment(r, l, dist, i, Distance(r, At(l, i), At(l, i + 1)), sum)
  ELSE IF Len(l) = 0 THEN Panics ELSE Returns(At(l, Len(l) - 1))

\* segment i of length d is added to the running sum
AlongSegment(r, l, dist, i, d, sum) ==
  AlongStep(At(l, i), At(l, i + 1), dist, d, RAdd(sum, d),
            AlongFrom(r, l, dist, i + 1, RAdd(sum, d)))

Along(r, l, dist) ==
  IF RLe(dist, Zero)
  THEN (IF Len(l) = 0 THEN Panics ELSE Returns(At(l, 0)))
  ELSE AlongFrom(r, l, dist, 0, Zero)

\* the minimum update replacing the minimum by a candidate as near as it
PointOnLineKeepLast(i, st, t, x, y, sqDist) ==
  IF RLe(sqDist, st.minDist)
  THEN [minDist |-> sqDist, minX |-> x, minY |-> y, minI |-> i, minT |-> t, t |-> t]
  ELSE [st EXCEPT !.t = t]

\* the end of an iteration of the loop of PointOnLine: the candidate (x, y) on
\* segment i at squared distance sqDist replaces the minimum if it is nearer
PointOnLineKeep(i, st, t, x, y, sqDist) ==
  IF RLt(sqDist, st.minDist)
  THEN [minDist |-> sqDist, minX |-> x, minY |-> y, minI |-> i, minT |-> t, t |-> t]
  ELSE [st EXCEPT !.t = t]

\* the squared projected distance from p to the candidate (x, y)
PointOnLineAt(r, p, i, st, t, x, y) ==
  PointOnLineKeep(i, st, t, x, y,
    RAdd(RMul(RMul(RSub(p[1], x), r.kx), RMul(RSub(p[1], x), r.kx)),
         RMul(RMul(RSub(p[2], y), r.ky), RMul(RSub(p[2], y), r.ky))))

\* the candidate on a segment from a to b of non-zero length (dx, dy) for
\* the parameter t
PointOnLineClamp(r, p, i, st, a, b, dx, dy, t) ==
  IF RGt(t, One) THEN PointOnLineAt(r, p, i, st, t, b[1], b[2])
  ELSE IF RGt(t, Zero)
       THEN PointOnLineAt(r, p, i, st, t,
              RAdd(a[1], RMul(RDiv(dx, r.kx), t)), RAdd(a[2], RMul(RDiv(dy, r.ky), t)))
  ELSE PointOnLineAt(r, p, i, st, t, a[1], a[2])

\* the projection with p - a left in degrees, not scaled by kx and ky
PointOnLineProjectUnscaled(r, p, i, st, a, b, dx, dy) ==
  IF ~REq(dx, Zero) \/ ~REq(dy, Zero)
  THEN PointOnLineClamp(r, p, i, st, a, b, dx, dy,
         RDiv(RAdd(RMul(RSub(p[1], a[1]), dx), RMul(RSub(p[2], a[2]), dy)),
              RAdd(RMul(dx, dx), RMul(dy, dy))))
  ELSE PointOnLineAt(r, p, i, st, st.t, a[1], a[2])

\* the projection of p on the segment from a to b of projected length (dx, dy);
\* t keeps its value of the iteration before on a segment of zero length
PointOnLineProject(r, p, i, st, a, b, dx, dy) ==
  IF ~REq(dx, Zero) \/ ~REq(dy, Zero)
  THEN PointOnLineClamp(r, p, i, st, a, b, dx, dy,
         RDiv(RAdd(RMul(RMul(RSub(p[1], a[1]), r.kx), dx),
                   RMul(RMul(RSub(p[2], a[2]), r.ky), dy)),
              RAdd(RMul(dx, dx), RMul(dy, dy))))
  ELSE PointOnLineAt(r, p, i, st, st.t, a[1], a[2])

\* one iteration of the loop of PointOnLine on segment i; st holds the
\* variables that live across iterations
PointOnLineStep(r, l, p, i, st) ==
  PointOnLineProject(r, p, i, st, At(l, i), At(l, i + 1),
    RMul(RSub(At(l, i + 1)[1], At(l, i)[1]), r.kx),
    RMul(RSub(At(l, i + 1)[2], At(l, i)[2]), r.ky))

RECURSIVE PointOnLineFrom(_, _, _, _, _)
PointOnLineFrom(r, l, p, i, st) ==
  IF i < Len(l) - 1
  THEN PointOnLineFrom(r, l, p, i + 1, PointOnLineStep(r, l, p, i, st))
  ELSE st

\* the PointOnLine built from the variables of the loop at its end
PointOnLineResult(st) ==
  [point |-> <<st.minX, st.minY>>,
   index |-> st.minI,
   t |-> RMax(Zero, RMin(One, st.minT))]

PointOnLine(r, l, p) ==
  PointOnLineResult(PointOnLineFrom(r, l, p, 0,
    [minDist |-> PosInf, minX |-> Zero, minY |-> Zero, minI |-> 0,
     minT |-> Zero, t |-> Zero]))

\* the swap test of LineSlice on the two snapped points
SliceSwaps(p1, p2) ==
  p1.index > p2.index \/ (p1.index = p2.index /\ RLt(p1.t, p2.t))

\* l[from .. to], Go indices, empty when from > to
Vertices(l, from, to) ==
  IF from > to THEN <<>> ELSE [k \in 1..(to - from + 1) |-> At(l, from + k - 1)]

\* the slice with its last point: p2 is appended unless it is l[right]
SliceEnd(l, slice, right, p2) ==
  IF ~PointEq(At(l, right), p2.point) THEN Append(slice, p2.point) ELSE slice

\* the slice LineSlice builds once p1 and p2 are in order
SliceBetween(l, p1, p2, left, right) ==
  IF left >= Len(l) THEN Panics
  ELSE Returns(SliceEnd(l,
         (IF ~PointEq(At(l, left), p1.point) /\ left <= right
          THEN <<p1.point, At(l, left)>> ELSE <<p1.point>>)
           \o Vertices(l, left + 1, right),
         right, p2))

\* LineSlice from the two snapped points
SliceOrdered(l, s1, s2) ==
  IF SliceSwaps(s1, s2)
  THEN SliceBetween(l, s2, s1, s2.index + 1, s1.index)
  ELSE SliceBetween(l, s1, s2, s1.index + 1, s2.index)

LineSlice(r, start, end, l) ==
  SliceOrdered(l, PointOnLine(r, l, start), PointOnLine(r, l, end))

\* the first test of the loop without len(slice) == 0
SliceAlongStartEverySegment(p0, p1, start, d, s, slice) ==
  IF RGt(s, start)
  THEN Append(slice, interpolate(p0, p1, RDiv(RSub(start, RSub(s, d)), d)))
  ELSE slice

\* the slice after the first test of the loop of LineSliceAlong
SliceAlongStart(p0, p1, start, d, s, slice) ==
  IF RGt(s, start) /\ Len(slice) = 0
  THEN Append(slice, interpolate(p0, p1, RDiv(RSub(start, RSub(s, d)), d)))
  ELSE slice

RECURSIVE LineSliceAlongFrom(_, _, _, _, _, _, _)
RECURSIVE LineSliceAlongSegment(_, _, _, _, _, _, _, _)
RECURSIVE LineSliceAlongStep(_, _, _, _, _, _, _, _)
RECURSIVE LineSliceAlongStepNoReturn(_, _, _, _, _, _, _, _)
\* the loop of LineSliceAlong from index i with the running sum and slice
LineSliceAlongFrom(r, start, stop, l, i, sum, slice) ==
  IF i < Len(l) - 1
  THEN LineSliceAlongSegment(r, start, stop, l, i,
         Distance(r, At(l, i), At(l, i + 1)), sum, slice)
  ELSE slice

\* segment i of length d is added to the running sum
LineSliceAlongSegment(r, start, stop, l, i, d, sum, slice) ==
  LineSliceAlongStep(r, start, stop, l, i, d, RAdd(sum, d), slice)

\* the slice after the second test of the loop when the loop goes on after it
SliceAlongStop(p0, p1, stop, d, s, slice) ==
  IF RGe(s, stop)
  THEN Append(slice, interpolate(p0, p1, RDiv(RSub(stop, RSub(s, d)), d)))
  ELSE slice

\* the body of the loop without the return after the point at stop
LineSliceAlongStepNoReturn(r, start, stop, l, i, d, s, slice) ==
  LineSliceAlongFrom(r, start, stop, l, i + 1, s,
    IF RGt(s, start)
    THEN Append(SliceAlongStop(At(l, i), At(l, i + 1), stop, d, s,
                  SliceAlongStart(At(l, i), At(l, i + 1), start, d, s, slice)),
                At(l, i + 1))
    ELSE SliceAlongStop(At(l, i), At(l, i + 1), stop, d, s,
           SliceAlongStart(At(l, i), At(l, i + 1), start, d, s, slice)))

\* the body of the loop on segment i of length d, the sum s advanced by d
LineSliceAlongStep(r, start, stop, l, i, d, s, slice) ==
  IF RGe(s, stop)
  THEN Append(SliceAlongStart(At(l, i), At(l, i + 1), start, d, s, slice),
              interpolate(At(l, i), At(l, i + 1), RDiv(RSub(stop, RSub(s, d)), d)))
  ELSE LineSliceAlongFrom(r, start, stop, l, i + 1, s,
         IF RGt(s, start)
         THEN Append(SliceAlongStart(At(l, i), At(l, i + 1), start, d, s, slice),
                     At(l, i + 1))
         ELSE SliceAlongStart(At(l, i), At(l, i + 1), start, d, s, slice))

LineSliceAlong(r, start, stop, l) == LineSliceAlongFrom(r, start, stop, l, 0, Zero, <<>>)

(* ------------------------------- area --------------------------------- *)
RECURSIVE RingSumFrom(_, _, _, _, _)
\* the inner loop of Area over one ring from the indices j and k with the
\* running sum; its post statement k, j = j+1, j+1 sets both to j + 1
RingSumFrom(ring, isNotHole, j, k, sum) ==
  IF j < Len(ring)
  THEN RingSumFrom(ring, isNotHole, j + 1, j + 1,
         RAdd(sum, RMul(RMul(RSub(At(ring, j)[1], At(ring, k)[1]),
                             RAdd(At(ring, j)[2], At(ring, k)[2])),
                        isNotHole)))
  ELSE sum

RECURSIVE AreaFrom(_, _, _)
\* the outer loop of Area from ring i with the running sum
AreaFrom(p, i, sum) ==
  IF i < Len(p)
  THEN AreaFrom(p, i + 1,
         RingSumFrom(At(p, i), IF i > 0 THEN I(-1) ELSE One, 0, Len(At(p, i)) - 1, sum))
  ELSE sum

Area(r, p) == RMul(RMul(RDiv(RAbs(AreaFrom(p, 0, Zero)), I(2)), r.kx), r.ky)

(* --------------------------- bbox operations -------------------------- *)
BufferPoint(r, p, buffer) ==
  LET v == RDiv(buffer, r.kx)
      h == RDiv(buffer, r.ky)
  IN  <<RSub(p[1], h), RSub(p[2], v), RAdd(p[1], h), RAdd(p[2], v)>>

BufferBbox(r, b, buffer) ==
  LET v == RDiv(buffer, r.kx)
      h == RDiv(buffer, r.ky)
  IN  <<RSub(b[1], h), RSub(b[2], v), RAdd(b[3], h), RAdd(b[4], v)>>

\* InsideBbox leaving the east edge out
InsideBboxOpenEast(p, b) ==
  /\ RGe(p[1], b[1])
  /\ RLt(p[1], b[3])
  /\ RGe(p[2], b[2])
  /\ RLe(p[2], b[4])

InsideBbox(p, b) ==
  /\ RGe(p[1], b[1])
  /\ RLe(p[1], b[3])
  /\ RGe(p[2], b[2])
  /\ RLe(p[2], b[4])

(* ---------------------------- the call record ------------------------- *)
VARIABLES
  op,        \* the operation called
  r,         \* its receiver
  args,      \* its arguments
  pc,        \* "call" while the call is pending, "done" once it has ended
  out,       \* what it returned
  panicked   \* whether it panicked instead of returning

vars == <<op, r, args, pc, out, panicked>>

\* the rulers the operations are called on: Ruler{kx, ky} values
Rulers == {[kx |-> I(1), ky |-> I(1)], [kx |-> I(4), ky |-> I(3)]}

\* [longitude, latitude] in degrees, column by column: (0,0), (0,1), (1,0), ...
Points == {<<I(i \div 2), I(i % 2)>> : i \in 0..MaxPoint}

Lines == UNION {[1..n -> Points] : n \in 0..MaxLen}

\* the lines all of whose segments have a rational length under ruler k
Measurable(k, l) ==
  \A i \in 0..(Len(l) - 2) : Len(Distance(k, At(l, i), At(l, i + 1))) = 2

MeasurableLines(k) == {l \in Lines : Measurable(k, l)}

\* the distances passed to Along and LineSliceAlong
MaxDist == 3
Dists == {I(n) : n \in -1..MaxDist} \cup {Q(1, 2)}

\* the components passed to Offset and the margins passed to the buffers
MaxDelta == 2
Deltas == {I(n) : n \in -MaxDelta..MaxDelta}

\* the polygons passed to Area: an outer ring and holes
MaxRings == 2
Polygons == UNION {[1..n -> Lines] : n \in 0..MaxRings}

UnknownUnits == {"", "km", "Meters"}

\* the receiver of NewRuler, which is a function and has none
NoRuler == [kx |-> Zero, ky |-> Zero]

\* a pending call of one of the operations ops on arguments of the input sets
Calling(ops) ==
  /\ pc = "call"
  /\ out = <<>>
  /\ panicked = FALSE
  /\ op \in ops
  /\ \/ /\ op = "NewRuler"
        /\ r = NoRuler
        /\ \E lat \in Latitudes, unit \in UnitNames \cup UnknownUnits :
             args = [lat |-> lat, unit |-> unit]
     \/ /\ op \in {"Distance", "Bearing"}
        /\ r \in Rulers
        /\ \E a \in Points, b \in Points : args = [a |-> a, b |-> b]
     \/ /\ op = "Offset"
        /\ r \in Rulers
        /\ \E p \in Points, dx \in Deltas, dy \in Deltas :
             args = [p |-> p, dx |-> dx, dy |-> dy]
     \/ /\ op = "LineDistance"
        /\ r \in Rulers
        /\ \E l \in MeasurableLines(r) : args = [l |-> l]
     \/ /\ op = "Along"
        /\ r \in Rulers
        /\ \E l \in MeasurableLines(r), dist \in Dists : args = [l |-> l, dist |-> dist]
     \/ /\ op = "PointOnLine"
        /\ r \in Rulers
        /\ \E l \in Lines, p \in Points : args = [l |-> l, p |-> p]
     \/ /\ op = "LineSlice"
        /\ r \in Rulers
        /\ \E l \in Lines, start \in Points, end \in Points :
             args = [start |-> start, end |-> end, l |-> l]
     \/ /\ op = "LineSliceAlong"
        /\ r \in Rulers
        /\ \E l \in MeasurableLines(r), start \in Dists, stop \in Dists :
             args = [start |-> start, stop |-> stop, l |-> l]
     \/ /\ op = "BufferPoint"
        /\ r \in Rulers
        /\ \E p \in Points, buffer \in Deltas : args = [p |-> p, buffer |-> buffer]
     \/ /\ op = "BufferBbox"
        /\ r \in Rulers
        /\ \E sw \in Points, ne \in Points, buffer \in Deltas :
             args = [b |-> <<sw[1], sw[2], ne[1], ne[2]>>, buffer |-> buffer]
     \/ /\ op = "Area"
        /\ r \in Rulers
        /\ \E p \in Polygons : args = [p |-> p]
     \/ /\ op = "InsideBbox"
        /\ r \in Rulers
        /\ \E p \in Points, sw \in Points, ne \in Points :
             args = [p |-> p, b |-> <<sw[1], sw[2], ne[1], ne[2]>>]

\* one call of a point or bbox operation, or of NewRuler
Init ==
  Calling({"NewRuler", "Distance", "Bearing", "Offset", "BufferPoint", "BufferBbox",
           "InsideBbox"})

\* one call of an operation that walks a line by distance
InitAlong == Calling({"LineDistance", "Along", "LineSliceAlong"})

\* one call of PointOnLine
InitSnap == Calling({"PointOnLine"})

\* one call of LineSlice
InitSlice == Calling({"LineSlice"})

CallNewRuler ==
  /\ pc = "call"
  /\ op = "NewRuler"
  /\ out' = NewRuler(args.lat, args.unit)
  /\ panicked' = FALSE
  /\ pc' = "done"
  /\ UNCHANGED <<op, r, args>>

CallDistance ==
  /\ pc = "call"
  /\ op = "Distance"
  /\ out' = Distance(r, args.a, args.b)
  /\ panicked' = FALSE
  /\ pc' = "done"
  /\ UNCHANGED <<op, r, args>>

CallBearing ==
  /\ pc = "call"
  /\ op = "Bearing"
  /\ out' = Bearing(r, args.a, args.b)
  /\ panicked' = FALSE
  /\ pc' = "done"
  /\ UNCHANGED <<op, r, args>>

CallOffset ==
  /\ pc = "call"
  /\ op = "Offset"
  /\ out' = Offset(r, args.p, args.dx, args.dy)
  /\ panicked' = FALSE
  /\ pc' = "done"
  /\ UNCHANGED <<op, r, args>>

CallLineDistance ==
  /\ pc = "call"
  /\ op = "LineDistance"
  /\ out' = LineDistance(r, args.l)
  /\ panicked' = FALSE
  /\ pc' = "done"
  /\ UNCHANGED <<op, r, args>>

CallAlong ==
  /\ pc = "call"
  /\ op = "Along"
  /\ LET res == Along(r, args.l, args.dist)
     IN  out' = res.v /\ panicked' = ~res.ok
  /\ pc' = "done"
  /\ UNCHANGED <<op, r, args>>

CallPointOnLine ==
  /\ pc = "call"
  /\ op = "PointOnLine"
  /\ out' = PointOnLine(r, args.l, args.p)
  /\ panicked' = FALSE
  /\ pc' = "done"
  /\ UNCHANGED <<op, r, args>>

CallLineSlice ==
  /\ pc = "call"
  /\ op = "LineSlice"
  /\ LET res == LineSlice(r, args.start, args.end, args.l)
     IN  out' = res.v /\ panicked' = ~res.ok
  /\ pc' = "done"
  /\ UNCHANGED <<op, r, args>>

CallLineSliceAlong ==
  /\ pc = "call"
  /\ op = "LineSliceAlong"
  /\ out' = LineSliceAlong(r, args.start, args.stop, args.l)
  /\ panicked' = FALSE
  /\ pc' = "done"
  /\ UNCHANGED <<op, r, args>>

CallBufferPoint ==
  /\ pc = "call"
  /\ op = "BufferPoint"
  /\ out' = BufferPoint(r, args.p, args.buffer)
  /\ panicked' = FALSE
  /\ pc' = "done"
  /\ UNCHANGED <<op, r, args>>

CallBufferBbox ==
  /\ pc = "call"
  /\ op = "BufferBbox"
  /\ out' = BufferBbox(r, args.b, args.buffer)
  /\ panicked' = FALSE
  /\ pc' = "done"
  /\ UNCHANGED <<op, r, args>>

\* one call of Area
InitArea == Calling({"Area"})

CallArea ==
  /\ pc = "call"
  /\ op = "Area"
  /\ out' = Area(r, args.p)
  /\ panicked' = FALSE
  /\ pc' = "done"
  /\ UNCHANGED <<op, r, args>>

CallInsideBbox ==
  /\ pc = "call"
  /\ op = "InsideBbox"
  /\ out' = InsideBbox(args.p, args.b)
  /\ panicked' = FALSE
  /\ pc' = "done"
  /\ UNCHANGED <<op, r, args>>

Next ==
  \/ CallNewRuler
  \/ CallDistance
  \/ CallBearing
  \/ CallOffset
  \/ CallBufferPoint
  \/ CallBufferBbox
  \/ CallInsideBbox

Spec == Init /\ [][Next]_vars

NextAlong ==
  \/ CallLineDistance
  \/ CallAlong
  \/ CallLineSliceAlong

SpecAlong == InitAlong /\ [][NextAlong]_vars

NextSnap == CallPointOnLine

SpecSnap == InitSnap /\ [][NextSnap]_vars

NextSlice == CallLineSlice

SpecSlice == InitSlice /\ [][NextSlice]_vars

NextArea == CallArea

SpecArea == InitArea /\ [][NextArea]_vars

(* ------------------------------ properties ---------------------------- *)
Done(name) == pc = "done" /\ op = name

\* C3: BufferPoint(p, buffer) is [lon - h, lat - v, lon + h, lat + v] with the
\* longitude margin h = buffer/kx and the latitude margin v = buffer/ky, and
\* BufferBbox(b, buffer) moves west and east outward by buffer/kx and south
\* and north outward by buffer/ky, on every ruler with kx # ky.
C3_BufferMargins ==
  LET h == RDiv(args.buffer, r.kx)
      v == RDiv(args.buffer, r.ky)
  IN  /\ (Done("BufferPoint") /\ r.kx # r.ky) =>
           out = <<RSub(args.p[1], h), RSub(args.p[2], v),
                   RAdd(args.p[1], h), RAdd(args.p[2], v)>>
      /\ (Done("BufferBbox") /\ r.kx # r.ky) =>
           out = <<RSub(args.b[1], h), RSub(args.b[2], v),
                   RAdd(args.b[3], h), RAdd(args.b[4], v)>>

\* C4: Bearing(a, b) is the compass angle of the vector from a to b: with
\* kx, ky > 0 it is 0 for b due north of a, 90 due east, 180 due south and
\* -90 due west; it is 0 when a = b; and it always lies in (-180, 180].
C4_BearingCompass ==
  (Done("Bearing") /\ RGt(r.kx, Zero) /\ RGt(r.ky, Zero)) =>
    LET a == args.a
        b == args.b
    IN  /\ (b[1] = a[1] /\ RGt(b[2], a[2])) => out = I(0)
        /\ (RGt(b[1], a[1]) /\ b[2] = a[2]) => out = I(90)
        /\ (b[1] = a[1] /\ RLt(b[2], a[2])) => out = I(180)
        /\ (RLt(b[1], a[1]) /\ b[2] = a[2]) => out = I(-90)
        /\ a = b => out = I(0)
        /\ RGt(out, I(-180)) /\ RLe(out, I(180))

\* a bearing was taken of a point due west
C4_Witness ==
  /\ Done("Bearing")
  /\ RLt(args.b[1], args.a[1]) /\ args.b[2] = args.a[2]
  /\ out = I(-90)

\* C9: NewRuler with a unit that is not a key of Units returns a non-nil
\* error and the ruler NewRuler returns for the same latitude and
\* "kilometers"; with a unit that is a key of Units it returns a nil error.
C9_InvalidUnitFallsBack ==
  Done("NewRuler") =>
    IF args.unit \in DOMAIN Units
    THEN out.err = NilError
    ELSE /\ out.err # NilError
         /\ out.ruler = NewRuler(args.lat, "kilometers").ruler

\* NewRuler was called with an unknown unit away from the equator
C9_Witness ==
  /\ Done("NewRuler")
  /\ args.unit = "km"
  /\ args.lat = 60
  /\ out.err # NilError

\* the squared norm dx^2 + dy^2
SqNorm(dx, dy) == RAdd(RMul(dx, dx), RMul(dy, dy))

\* C10: on a ruler with kx, ky # 0 the distance between p and
\* Offset(p, dx, dy) is sqrt(dx^2 + dy^2), and Offset(p, dx, dy) differs from
\* p by exactly dx/kx in longitude and dy/ky in latitude.
C10_OffsetDistance ==
  (Done("Offset") /\ r.kx # Zero /\ r.ky # Zero) =>
    /\ Distance(r, args.p, out) = Sqrt(SqNorm(args.dx, args.dy))
    /\ RSub(out[1], args.p[1]) = RDiv(args.dx, r.kx)
    /\ RSub(out[2], args.p[2]) = RDiv(args.dy, r.ky)

\* a point was offset diagonally on a ruler with kx # ky
C10_Witness ==
  /\ Done("Offset")
  /\ r.kx # r.ky
  /\ args.dx = I(1) /\ args.dy = I(-2)
  /\ out # args.p

(* --------------------- measures the properties use -------------------- *)
\* the length of the first n segments of l
Cum(k, l, n) == LineDistance(k, SubSeq(l, 1, n + 1))

\* the squared projected distance between the points a and b
SqDist(k, a, b) ==
  SqNorm(RMul(RSub(a[1], b[1]), k.kx), RMul(RSub(a[2], b[2]), k.ky))

Between(x, u, v) == (RLe(u, x) /\ RLe(x, v)) \/ (RLe(v, x) /\ RLe(x, u))

\* q lies on the closed segment from a to b
OnSegment(q, a, b) ==
  /\ RMul(RSub(b[1], a[1]), RSub(q[2], a[2])) = RMul(RSub(b[2], a[2]), RSub(q[1], a[1]))
  /\ Between(q[1], a[1], b[1])
  /\ Between(q[2], a[2], b[2])

\* q lies on segment i of l, at distance x from l[0] measured along l
AtDistance(k, l, q, i, x) ==
  /\ OnSegment(q, At(l, i), At(l, i + 1))
  /\ RAdd(Cum(k, l, i), Distance(k, At(l, i), q)) = x

\* the first segment of l whose cumulative length exceeds x
SegExceeding(k, l, x) ==
  CHOOSE i \in 0..(Len(l) - 2) :
    /\ RGt(Cum(k, l, i + 1), x)
    /\ \A j \in 0..(i - 1) : ~RGt(Cum(k, l, j + 1), x)

\* the first segment of l whose cumulative length reaches or exceeds x
SegReaching(k, l, x) ==
  CHOOSE i \in 0..(Len(l) - 2) :
    /\ RGe(Cum(k, l, i + 1), x)
    /\ \A j \in 0..(i - 1) : ~RGe(Cum(k, l, j + 1), x)

\* the squared projected distance from p to the closed segment from a to b
SegSqDistWith(pa, pb, len2, dot) ==
  IF len2 = Zero \/ RLe(dot, Zero) THEN pa
  ELSE IF RGe(dot, len2) THEN pb
  ELSE RSub(pa, RDiv(RMul(dot, dot), len2))

SegSqDist(k, p, a, b) ==
  SegSqDistWith(SqDist(k, p, a), SqDist(k, p, b), SqDist(k, a, b),
    RAdd(RMul(RMul(RSub(p[1], a[1]), k.kx), RMul(RSub(b[1], a[1]), k.kx)),
         RMul(RMul(RSub(p[2], a[2]), k.ky), RMul(RSub(b[2], a[2]), k.ky))))

\* the distance from l[0], along l, of the snapped point s
SnapDistance(k, l, s) ==
  RAdd(Cum(k, l, s.index),
       RMul(s.t, Distance(k, At(l, s.index), At(l, s.index + 1))))

\* the snapped point s1 is not after the snapped point s2 along the line
NotAfter(s1, s2) ==
  s1.index < s2.index \/ (s1.index = s2.index /\ RLe(s1.t, s2.t))

(* ------------------------------ line claims --------------------------- *)
\* the slice returned starts at the earlier and ends at the later of the
\* snapped points s1 and s2
RunsForwardBetween(s1, s2) ==
  /\ ~panicked
  /\ out[1] = (IF NotAfter(s1, s2) THEN s1 ELSE s2).point
  /\ out[Len(out)] = (IF NotAfter(s1, s2) THEN s2 ELSE s1).point

\* C1: for kx, ky > 0 and a line of at least 2 points, LineSlice(start, end,
\* line) runs forward: its first element is whichever of the two snapped
\* points is earlier along the line (index, then t) and its last element is
\* the later one, in whichever order start and end are passed.
C1_SliceRunsForward ==
  (Done("LineSlice") /\ Len(args.l) >= 2 /\ RGt(r.kx, Zero) /\ RGt(r.ky, Zero)) =>
    RunsForwardBetween(PointOnLine(r, args.l, args.start),
                       PointOnLine(r, args.l, args.end))

\* C2: for a line of at least 2 points, LineDistance(LineSlice(a, b, line)) is
\* the distance along the line between the snapped positions of a and b.
C2_SliceLength ==
  (Done("LineSlice") /\ Len(args.l) >= 2 /\ Measurable(r, args.l)) =>
    /\ ~panicked
    /\ LineDistance(r, out) =
         RAbs(RSub(SnapDistance(r, args.l, PointOnLine(r, args.l, args.start)),
                   SnapDistance(r, args.l, PointOnLine(r, args.l, args.end))))

\* C5: LineSliceAlong(0, LineDistance(line), line) equals the line, point for
\* point, for every line.
C5_WholeSliceIsLine ==
  (Done("LineSliceAlong") /\ args.start = Zero /\ args.stop = LineDistance(r, args.l)) =>
    out = args.l

\* the slice returned is the point of segment i1 at distance start, the
\* vertices after it up to segment i2, and the point of segment i2 at distance
\* stop, and it measures stop - start
SlicedBetween(k, l, start, stop, i1, i2) ==
  /\ Len(out) = i2 - i1 + 2
  /\ AtDistance(k, l, out[1], i1, start)
  /\ \A j \in 1..(i2 - i1) : out[j + 1] = At(l, i1 + j)
  /\ AtDistance(k, l, out[Len(out)], i2, stop)
  /\ LineDistance(k, out) = RSub(stop, start)

\* C6: for a line of at least 2 points and 0 <= start < stop <=
\* LineDistance(line), LineSliceAlong(start, stop, line) is the point at
\* distance start, the vertices between, and last the point at distance stop
\* on the first segment whose running sum reaches stop, with no vertex after
\* it; its LineDistance is stop - start.
C6_SliceAlongStopsAtStop ==
  (/\ Done("LineSliceAlong")
   /\ Len(args.l) >= 2
   /\ RLe(Zero, args.start)
   /\ RLt(args.start, args.stop)
   /\ RLe(args.stop, LineDistance(r, args.l))) =>
    SlicedBetween(r, args.l, args.start, args.stop,
                  SegExceeding(r, args.l, args.start),
                  SegReaching(r, args.l, args.stop))

\* a slice was cut from inside one segment to inside a later one
C6_Witness ==
  /\ Done("LineSliceAlong")
  /\ Len(args.l) = 3
  /\ RLt(Zero, args.start)
  /\ RLt(args.start, Cum(r, args.l, 1))
  /\ RLt(Cum(r, args.l, 1), args.stop)
  /\ RLt(args.stop, LineDistance(r, args.l))
  /\ Len(out) = 3

\* C7: on a non-empty line Along(line, dist) is line[0] when dist <= 0, the
\* last point when dist >= LineDistance(line), and otherwise the point of the
\* first segment whose cumulative length exceeds dist that is at distance
\* dist from line[0] along the line.
C7_AlongPosition ==
  (Done("Along") /\ Len(args.l) >= 1) =>
    /\ ~panicked
    /\ RLe(args.dist, Zero) => out = At(args.l, 0)
    /\ RGe(args.dist, LineDistance(r, args.l)) => out = At(args.l, Len(args.l) - 1)
    /\ (RGt(args.dist, Zero) /\ RLt(args.dist, LineDistance(r, args.l))) =>
         AtDistance(r, args.l, out, SegExceeding(r, args.l, args.dist), args.dist)

\* Along returned a point inside the second segment of a line
C7_Witness ==
  /\ Done("Along")
  /\ Len(args.l) = 3
  /\ RGt(args.dist, Cum(r, args.l, 1))
  /\ RLt(args.dist, LineDistance(r, args.l))
  /\ out \notin {args.l[2], args.l[3]}

\* C8: for kx, ky > 0 and a line of at least 2 points, the point PointOnLine
\* returns is a nearest point of the polyline to p in projected space: it is
\* on the line and no vertex and no point of any segment is nearer to p.
C8_SnapIsNearest ==
  (Done("PointOnLine") /\ Len(args.l) >= 2 /\ RGt(r.kx, Zero) /\ RGt(r.ky, Zero)) =>
    /\ \E i \in 0..(Len(args.l) - 2) : OnSegment(out.point, At(args.l, i), At(args.l, i + 1))
    /\ \A i \in 1..Len(args.l) :
         RLe(SqDist(r, out.point, args.p), SqDist(r, args.l[i], args.p))
    /\ \A i \in 0..(Len(args.l) - 2) :
         RLe(SqDist(r, out.point, args.p),
             SegSqDist(r, args.p, At(args.l, i), At(args.l, i + 1)))

\* a point was snapped inside the second segment of a line it is not on
C8_Witness ==
  /\ Done("PointOnLine")
  /\ Len(args.l) = 3
  /\ out.index = 1
  /\ RGt(out.t, Zero) /\ RLt(out.t, One)
  /\ out.point # args.p

\* C11: on every ruler and for all points a and b, Distance(a, b) equals
\* Distance(b, a), and Distance(a, a) is 0.
C11_DistanceSymmetric ==
  Done("Distance") =>
    /\ out = Distance(r, args.b, args.a)
    /\ (args.a = args.b => out = Zero)

\* a positive distance was measured on the ruler with two different scales
C11_Witness ==
  /\ Done("Distance")
  /\ r.kx # r.ky
  /\ args.a[1] # args.b[1]
  /\ args.a[2] # args.b[2]
  /\ out # Zero

\* the four corner points of the Bbox b
Corners(b) == {<<b[1], b[2]>>, <<b[1], b[4]>>, <<b[3], b[2]>>, <<b[3], b[4]>>}

\* west is not east of east, south is not north of north
WellFormed(b) == RLe(b[1], b[3]) /\ RLe(b[2], b[4])

\* p lies on one of the four edges of a well-formed b
OnEdge(p, b) ==
  \/ /\ p[1] \in {b[1], b[3]}
     /\ ~RLt(p[2], b[2]) /\ ~RGt(p[2], b[4])
  \/ /\ p[2] \in {b[2], b[4]}
     /\ ~RLt(p[1], b[1]) /\ ~RGt(p[1], b[3])

\* C12 as stated: for every Bbox b, InsideBbox is true of each of the four
\* corner points (b[0],b[1]), (b[0],b[3]), (b[2],b[1]), (b[2],b[3]) of b.
C12_CornersInsideAnyBbox ==
  Done("InsideBbox") /\ args.p \in Corners(args.b) => out = TRUE

\* C12: for every Bbox b with b[0] <= b[2] and b[1] <= b[3], InsideBbox is
\* true of each of the four corner points of b, and of every point on an edge
\* of b: the test is inclusive on both axes.
C12_CornersInsideBbox ==
  Done("InsideBbox") /\ WellFormed(args.b) =>
    /\ (args.p \in Corners(args.b) => out = TRUE)
    /\ (OnEdge(args.p, args.b) => out = TRUE)

\* the north-east corner of a bbox with four different edges was tested
C12_Witness ==
  /\ Done("InsideBbox")
  /\ RLt(args.b[1], args.b[3])
  /\ RLt(args.b[2], args.b[4])
  /\ args.p = <<args.b[3], args.b[4]>>
  /\ out = TRUE

\* the point at the proportion t of the way from a to b
Proportion(a, b, t) ==
  <<RAdd(a[1], RMul(t, RSub(b[1], a[1]))), RAdd(a[2], RMul(t, RSub(b[2], a[2])))>>

\* the squared projected distance from p to segment i of l
SqDistToSegment(k, l, p, i) == SegSqDist(k, p, At(l, i), At(l, i + 1))

\* C13: for every line of at least 2 points and every point p, the value
\* PointOnLine(line, p) returns is self-consistent: 0 <= index <= len(line) - 2,
\* 0 <= t <= 1 and point = line[index] + t * (line[index+1] - line[index]),
\* also when the line has zero-length segments; and of several segments at
\* the same minimal distance the one with the lowest index is returned.
C13_SnapSelfConsistent ==
  Done("PointOnLine") /\ Len(args.l) >= 2 =>
    /\ out.index \in 0..(Len(args.l) - 2)
    /\ RLe(Zero, out.t) /\ RLe(out.t, One)
    /\ out.point = Proportion(At(args.l, out.index), At(args.l, out.index + 1), out.t)
    /\ \A j \in 0..(Len(args.l) - 2) :
         /\ RLe(SqDistToSegment(r, args.l, args.p, out.index),
                SqDistToSegment(r, args.l, args.p, j))
         /\ j < out.index =>
              RLt(SqDistToSegment(r, args.l, args.p, out.index),
                  SqDistToSegment(r, args.l, args.p, j))

\* p is as near to the first segment, of zero length, as to the second, which
\* starts there, and the first was returned
C13_Witness ==
  /\ Done("PointOnLine")
  /\ Len(args.l) = 3
  /\ args.l[1] = args.l[2]
  /\ args.l[2] # args.l[3]
  /\ args.p # args.l[1]
  /\ SqDistToSegment(r, args.l, args.p, 0) = SqDistToSegment(r, args.l, args.p, 1)
  /\ out.index = 0
  /\ out.t = Zero

(* ------------------------------ area claim ---------------------------- *)
RECURSIVE SignedSumFrom(_, _)
\* twice the signed area of the ring in degrees: the sum over the circular
\* pairs of consecutive vertices, from pair j on
SignedSumFrom(ring, j) ==
  IF j >= Len(ring) THEN Zero
  ELSE RAdd(RMul(RSub(At(ring, j)[1], At(ring, (j + Len(ring) - 1) % Len(ring))[1]),
                 RAdd(At(ring, j)[2], At(ring, (j + Len(ring) - 1) % Len(ring))[2])),
            SignedSumFrom(ring, j + 1))

SignedSum(ring) == SignedSumFrom(ring, 0)

\* all rings of p enclose an area and turn the same way around it
SameWinding(p) ==
  \/ \A i \in 1..Len(p) : RGt(SignedSum(p[i]), Zero)
  \/ \A i \in 1..Len(p) : RLt(SignedSum(p[i]), Zero)

RECURSIVE HolesSignedFrom(_, _)
\* the sum of the absolute signed sums of the rings of p from ring i on
HolesSignedFrom(p, i) ==
  IF i > Len(p) THEN Zero
  ELSE RAdd(RAbs(SignedSum(p[i])), HolesSignedFrom(p, i + 1))

\* the holes of p together are not larger than its outer ring
HolesFit(p) == RLe(HolesSignedFrom(p, 2), RAbs(SignedSum(p[1])))

RECURSIVE HolesAreaFrom(_, _, _)
\* the sum of Area([ring]) over the rings of p from ring i on
HolesAreaFrom(k, p, i) ==
  IF i > Len(p) THEN Zero
  ELSE RAdd(Area(k, <<p[i]>>), HolesAreaFrom(k, p, i + 1))

Reversed(ring) == [j \in 1..Len(ring) |-> ring[Len(ring) + 1 - j]]

\* C14: for every polygon whose outer ring and holes are wound the same way
\* and whose holes together are not larger than the outer ring, Area(polygon)
\* is Area([outer]) minus the sum of Area([hole]) over the holes; and for a
\* polygon of one ring, Area is the same for the ring reversed and is never
\* negative.
C14_AreaOfRings ==
  Done("Area") /\ Len(args.p) >= 1 =>
    /\ (SameWinding(args.p) /\ HolesFit(args.p) =>
          out = RSub(Area(r, <<args.p[1]>>), HolesAreaFrom(r, args.p, 2)))
    /\ (Len(args.p) = 1 =>
          /\ out = Area(r, <<Reversed(args.p[1])>>)
          /\ RGe(out, Zero))

(* ----------------------------- short lines ---------------------------- *)
\* how the call ended: the operations on lines have no panic statement and
\* no error result, so a call that panicked was stopped by the runtime error
\* of an index out of range
Failure == IF panicked THEN "index out of range" ELSE "none"

\* C15: Along given an empty line fails with an explicit precondition
\* violation, not by reading out of bounds, for every dist (dist <= 0
\* included); Along given a line of exactly one point returns that point for
\* every dist.
C15_AlongShortLine ==
  Done("Along") =>
    /\ (Len(args.l) = 0 => Failure = "precondition violation")
    /\ (Len(args.l) = 1 => ~panicked /\ out = args.l[1])

\* a point interpolated across a segment of zero length: the quotient by
\* d = 0 is infinite or NaN and its product with the zero step is NaN
Undefined(q) == IsNaN(q[1]) \/ IsNaN(q[2])

\* l has two consecutive vertices that are equal
RepeatsVertex(l) == \E i \in 1..(Len(l) - 1) : l[i] = l[i + 1]

\* C16: Along and LineSliceAlong never interpolate across a zero-length
\* segment, that is never evaluate (x - (sum - d))/d with d = 0: for every
\* line, lines with repeated consecutive vertices included, every dist > 0
\* passed to Along and every start >= 0 and stop > 0 passed to
\* LineSliceAlong, every point they interpolate is on a segment of positive
\* length.
C16_NoZeroLengthInterpolation ==
  /\ Done("Along") /\ RGt(args.dist, Zero) /\ ~panicked => ~Undefined(out)
  /\ Done("LineSliceAlong") /\ RGe(args.start, Zero) /\ RGt(args.stop, Zero) =>
       \A i \in 1..Len(out) : ~Undefined(out[i])

\* a slice was cut out of a line that starts with a repeated vertex, both of
\* its ends interpolated on the segment after it
C16_Witness ==
  /\ Done("LineSliceAlong")
  /\ Len(args.l) = 3
  /\ args.l[1] = args.l[2]
  /\ args.l[2] # args.l[3]
  /\ RGt(args.start, Zero)
  /\ RGt(args.stop, args.start)
  /\ Len(out) = 2
  /\ out[1] # out[2]
  /\ out[1] # args.l[1]

====
